---- MODULE Spec2Model ----
(***************************************************************************)
(* Model of argubots.py: the Kialo-backed agents KialoAgent and            *)
(* KialoAgent2, the helper kialo_responses, and RAG_Agent.response.        *)
(*                                                                         *)
(* Text is a sequence of symbols.  A symbol is one character, except that  *)
(* the fixed literals of kialo_responses are one symbol each.              *)
(* One behaviour is one call: Init draws the operation called, the         *)
(* dialogue and the Kialo database; the actions are the steps of the call. *)
(***************************************************************************)
EXTENDS Integers, Sequences, FiniteSets, TLC

(* ---------------------------- bounds ---------------------------------- *)
MaxTurns == 2
MaxLen == 1
MaxRaw == 3

(* --------------------------- vocabulary -------------------------------- *)
Alphabet == {"a", "b"}
RawAlphabet == {"A", ":", " "}
BotName == <<"A">>
UserName == <<"U">>
Names == {BotName, UserName}
FinishReasons == {"stop", "length"}
Ops == {"KialoAgent", "KialoAgent2", "kialo_responses", "RAG_Agent"}

StringsOver(alphabet, maxLen) == UNION {[1..n -> alphabet] : n \in 0..maxLen}
Contents == StringsOver(Alphabet, MaxLen)
RawContents == StringsOver(RawAlphabet, MaxRaw)
Turns == [speaker : Names, content : Contents]
Dialogues == UNION {[1..n -> Turns] : n \in 0..MaxTurns}

Range(f) == {f[i] : i \in DOMAIN f}

(* ------------------------- Python str helpers -------------------------- *)
\* s * k
RECURSIVE str_mul(_, _)
str_mul(s, k) == IF k <= 0 THEN <<>> ELSE s \o str_mul(s, k - 1)

\* sep.join(parts)
RECURSIVE str_join(_, _)
str_join(sep, parts) ==
    IF parts = <<>> THEN <<>>
    ELSE IF Len(parts) = 1 THEN parts[1]
    ELSE parts[1] \o sep \o str_join(sep, Tail(parts))

\* s.startswith(prefix)
startswith(s, prefix) ==
    /\ Len(prefix) <= Len(s)
    /\ SubSeq(s, 1, Len(prefix)) = prefix

(* ----------------------------- Kialo ----------------------------------- *)
ca == <<"a">>
cb == <<"b">>
cab == <<"a", "b">>
cba == <<"b", "a">>
caa == <<"a", "a">>

\* a database in which four claims list con arguments
KialoDense ==
    [claims |-> <<ca, cb, cab, cba, caa>>,
     roots  |-> <<ca>>,
     pros   |-> [c \in {ca, cb, cab, cba, caa} |->
                    IF c = ca THEN <<caa>> ELSE <<>>],
     cons   |-> [c \in {ca, cb, cab, cba, caa} |->
                    CASE c = ca  -> <<cb, cab>>
                      [] c = cb  -> <<cba>>
                      [] c = cab -> <<cba>>
                      [] c = cba -> <<caa>>
                      [] OTHER   -> <<>>]]

\* a database in which one claim has two con arguments
KialoSingle ==
    [claims |-> <<ca, cab, cb>>,
     roots  |-> <<ca>>,
     pros   |-> [c \in {ca, cab, cb} |-> <<>>],
     cons   |-> [c \in {ca, cab, cb} |->
                    IF c = ca THEN <<cab, cb>> ELSE <<>>]]

\* a database in which no claim lists a con argument
KialoNoCons ==
    [claims |-> <<ca, cb>>,
     roots  |-> <<ca>>,
     pros   |-> [c \in {ca, cb} |-> IF c = ca THEN <<cb>> ELSE <<>>],
     cons   |-> [c \in {ca, cb} |-> <<>>]]

Kialos == {KialoDense, KialoSingle, KialoNoCons}

has_kind(k, c, kind) ==
    CASE kind = "has_cons" -> k.cons[c] # <<>>
      [] kind = "has_pros" -> k.pros[c] # <<>>
      [] OTHER             -> TRUE

\* lexical similarity: how many symbols of the query occur in the claim
similarity(c, s) ==
    Cardinality({i \in 1..Len(s) : \E j \in 1..Len(c) : c[j] = s[i]})

RemoveAt(seq, i) == SubSeq(seq, 1, i - 1) \o SubSeq(seq, i + 1, Len(seq))

\* the first n of cands by descending similarity, ties in input order
RECURSIVE top_n(_, _, _)
top_n(cands, s, n) ==
    IF n <= 0 \/ cands = <<>> THEN <<>>
    ELSE LET best == CHOOSE i \in 1..Len(cands) :
                        /\ \A j \in 1..Len(cands) :
                              similarity(cands[j], s) <= similarity(cands[i], s)
                        /\ \A j \in 1..(i - 1) :
                              similarity(cands[j], s) < similarity(cands[i], s)
         IN <<cands[best]>> \o top_n(RemoveAt(cands, best), s, n - 1)

closest_claims(k, s, n, kind) ==
    top_n(SelectSeq(k.claims, LAMBDA c : has_kind(k, c, kind)), s, n)

DefaultN == 1

\* every path that starts at a root and descends pro/con edges to a leaf
RECURSIVE chains_from(_, _)
chains_from(k, c) ==
    LET children == Range(k.pros[c]) \cup Range(k.cons[c])
    IN IF children = {} THEN {<<c>>}
       ELSE UNION {{<<c>> \o rest : rest \in chains_from(k, ch)} : ch \in children}

random_chain(k) == UNION {chains_from(k, r) : r \in Range(k.roots)}

(* ------------------------------ state ---------------------------------- *)
VARIABLES op, d, kialo, pc, query, neighbors, neighbor, reply, err, calls,
          messages, choice

vars == <<op, d, kialo, pc, query, neighbors, neighbor, reply, err, calls,
          messages, choice>>

NoChoice == [content |-> <<>>, is_str |-> FALSE, finish_reason |-> "none"]

Init ==
    /\ op \in Ops
    /\ d \in Dialogues
    /\ kialo \in Kialos
    /\ pc = "call"
    /\ query = <<>>
    /\ neighbors = <<>>
    /\ neighbor = <<>>
    /\ reply = <<>>
    /\ err = "none"
    /\ calls = <<>>
    /\ messages = <<>>
    /\ choice = NoChoice

Call(fn, args) == [fn |-> fn, args |-> args]

(* --------------------------- KialoAgent -------------------------------- *)
\* variant: returns the last claim of the chain, random_chain()[-1]
KialoAgent_first_turn_last ==
    /\ op = "KialoAgent" /\ pc = "call"
    /\ Len(d) = 0
    /\ \E chain \in random_chain(kialo) : reply' = <<chain[Len(chain)]>>
    /\ calls' = Append(calls, Call("random_chain", <<>>))
    /\ pc' = "done"
    /\ UNCHANGED <<op, d, kialo, query, neighbors, neighbor, err, messages, choice>>

\* len(d) == 0: claim = self.kialo.random_chain()[0]; return claim
KialoAgent_first_turn ==
    /\ op = "KialoAgent" /\ pc = "call"
    /\ Len(d) = 0
    /\ \E chain \in random_chain(kialo) : reply' = <<chain[1]>>
    /\ calls' = Append(calls, Call("random_chain", <<>>))
    /\ pc' = "done"
    /\ UNCHANGED <<op, d, kialo, query, neighbors, neighbor, err, messages, choice>>

\* variant: takes the last turn off the dialogue, d.pop()['content']
KialoAgent_query_pop ==
    /\ op = "KialoAgent" /\ pc = "call"
    /\ Len(d) > 0
    /\ LET previous_turn == d[Len(d)].content
       IN /\ query' = previous_turn
          /\ neighbors' = closest_claims(kialo, previous_turn, 3, "has_cons")
          /\ calls' = Append(calls, Call("closest_claims", <<previous_turn, 3, "has_cons">>))
    /\ d' = SubSeq(d, 1, Len(d) - 1)
    /\ pc' = "assert"
    /\ UNCHANGED <<op, kialo, neighbor, reply, err, messages, choice>>

\* previous_turn = d[-1]['content']; neighbors = closest_claims(previous_turn, 3, 'has_cons')
KialoAgent_query ==
    /\ op = "KialoAgent" /\ pc = "call"
    /\ Len(d) > 0
    /\ LET previous_turn == d[Len(d)].content
       IN /\ query' = previous_turn
          /\ neighbors' = closest_claims(kialo, previous_turn, 3, "has_cons")
          /\ calls' = Append(calls, Call("closest_claims", <<previous_turn, 3, "has_cons">>))
    /\ pc' = "assert"
    /\ UNCHANGED <<op, d, kialo, neighbor, reply, err, messages, choice>>

\* variant: the assertion is missing
KialoAgent_assert_missing ==
    /\ op = "KialoAgent" /\ pc = "assert"
    /\ pc' = "choose_neighbor"
    /\ UNCHANGED <<op, d, kialo, query, neighbors, neighbor, reply, err, calls, messages, choice>>

\* assert neighbors
KialoAgent_assert ==
    /\ op = "KialoAgent" /\ pc = "assert"
    /\ IF neighbors = <<>>
       THEN /\ err' = "AssertionError"
            /\ pc' = "error"
       ELSE /\ pc' = "choose_neighbor"
            /\ UNCHANGED err
    /\ UNCHANGED <<op, d, kialo, query, neighbors, neighbor, reply, calls, messages, choice>>

\* neighbor = random.choice(neighbors)
KialoAgent_choose_neighbor ==
    /\ op = "KialoAgent" /\ pc = "choose_neighbor"
    /\ IF neighbors = <<>>
       THEN /\ err' = "IndexError"
            /\ pc' = "error"
            /\ UNCHANGED neighbor
       ELSE /\ \E i \in 1..Len(neighbors) : neighbor' = <<neighbors[i]>>
            /\ pc' = "choose_con"
            /\ UNCHANGED err
    /\ UNCHANGED <<op, d, kialo, query, neighbors, reply, calls, messages, choice>>

\* variant: replies with the similar claim itself, claim = neighbor
KialoAgent_choose_con_self ==
    /\ op = "KialoAgent" /\ pc = "choose_con"
    /\ reply' = neighbor
    /\ pc' = "done"
    /\ UNCHANGED <<op, d, kialo, query, neighbors, neighbor, err, calls, messages, choice>>

\* claim = random.choice(self.kialo.cons[neighbor]); return claim
KialoAgent_choose_con ==
    /\ op = "KialoAgent" /\ pc = "choose_con"
    /\ LET cons == kialo.cons[neighbor[1]]
       IN IF cons = <<>>
          THEN /\ err' = "IndexError"
               /\ pc' = "error"
               /\ UNCHANGED reply
          ELSE /\ \E i \in 1..Len(cons) : reply' = <<cons[i]>>
               /\ pc' = "done"
               /\ UNCHANGED err
    /\ UNCHANGED <<op, d, kialo, query, neighbors, neighbor, calls, messages, choice>>

(* --------------------------- KialoAgent2 ------------------------------- *)
\* len(d) == 0: claim = self.kialo.random_chain()[0]; return claim
KialoAgent2_first_turn ==
    /\ op = "KialoAgent2" /\ pc = "call"
    /\ Len(d) = 0
    /\ \E chain \in random_chain(kialo) : reply' = <<chain[1]>>
    /\ calls' = Append(calls, Call("random_chain", <<>>))
    /\ pc' = "done"
    /\ UNCHANGED <<op, d, kialo, query, neighbors, neighbor, err, messages, choice>>

\* variant: turn i repeated i times, d[i]['content']*i
KialoAgent2_previous_turn_times_i(dlg) ==
    str_join(<<";">>, [i \in 1..Len(dlg) |-> str_mul(dlg[i].content, i - 1)])

\* variant: a separator after every turn, "".join(... + ";")
KialoAgent2_previous_turn_trailing(dlg) ==
    str_join(<<>>, [i \in 1..Len(dlg) |-> str_mul(dlg[i].content, i) \o <<";">>])

\* ";".join([d[i]['content']*(i+1) for i in range(len(d))])
KialoAgent2_previous_turn(dlg) ==
    str_join(<<";">>, [i \in 1..Len(dlg) |-> str_mul(dlg[i].content, i)])

\* previous_turn = ";".join(...); neighbors = closest_claims(previous_turn, 3, 'has_cons')
KialoAgent2_query ==
    /\ op = "KialoAgent2" /\ pc = "call"
    /\ Len(d) > 0
    /\ LET previous_turn == KialoAgent2_previous_turn(d)
       IN /\ query' = previous_turn
          /\ neighbors' = closest_claims(kialo, previous_turn, 3, "has_cons")
          /\ calls' = Append(calls, Call("closest_claims", <<previous_turn, 3, "has_cons">>))
    /\ pc' = "assert"
    /\ UNCHANGED <<op, d, kialo, neighbor, reply, err, messages, choice>>

\* assert neighbors
KialoAgent2_assert ==
    /\ op = "KialoAgent2" /\ pc = "assert"
    /\ IF neighbors = <<>>
       THEN /\ err' = "AssertionError"
            /\ pc' = "error"
       ELSE /\ pc' = "choose_neighbor"
            /\ UNCHANGED err
    /\ UNCHANGED <<op, d, kialo, query, neighbors, neighbor, reply, calls, messages, choice>>

\* neighbor = random.choice(neighbors)
KialoAgent2_choose_neighbor ==
    /\ op = "KialoAgent2" /\ pc = "choose_neighbor"
    /\ IF neighbors = <<>>
       THEN /\ err' = "IndexError"
            /\ pc' = "error"
            /\ UNCHANGED neighbor
       ELSE /\ \E i \in 1..Len(neighbors) : neighbor' = <<neighbors[i]>>
            /\ pc' = "choose_con"
            /\ UNCHANGED err
    /\ UNCHANGED <<op, d, kialo, query, neighbors, reply, calls, messages, choice>>

\* claim = random.choice(self.kialo.cons[neighbor]); return claim
KialoAgent2_choose_con ==
    /\ op = "KialoAgent2" /\ pc = "choose_con"
    /\ LET cons == kialo.cons[neighbor[1]]
       IN IF cons = <<>>
          THEN /\ err' = "IndexError"
               /\ pc' = "error"
               /\ UNCHANGED reply
          ELSE /\ \E i \in 1..Len(cons) : reply' = <<cons[i]>>
               /\ pc' = "done"
               /\ UNCHANGED err
    /\ UNCHANGED <<op, d, kialo, query, neighbors, neighbor, calls, messages, choice>>

(* -------------------------- kialo_responses ---------------------------- *)
RelatedHeader == "One possibly related claim from the Kialo debate website:\n\t\""
ClosingQuote == "\""
ProsHeader == "Some arguments from other Kialo users in favor of that claim:"
ConsHeader == "Some arguments from other Kialo users against that claim:"
Newline == "\n"
Bullet == "\n\t* "

\* the text built for the claim c (lines 118-123)
kialo_render(k, c) ==
    LET base == <<RelatedHeader>> \o c \o <<ClosingQuote>>
        withPros == IF k.pros[c] # <<>>
                    THEN base \o <<Newline>> \o str_join(<<Bullet>>, <<(<<ProsHeader>>)>> \o k.pros[c])
                    ELSE base
    IN IF k.cons[c] # <<>>
       THEN withPros \o <<Newline>> \o str_join(<<Bullet>>, <<(<<ConsHeader>>)>> \o k.cons[c])
       ELSE withPros

\* kialo_responses(kialo, s), for any string s
kialo_responses ==
    /\ op = "kialo_responses" /\ pc = "call"
    /\ \E s \in Contents :
          LET found == closest_claims(kialo, s, DefaultN, "has_cons")
          IN /\ query' = s
             /\ neighbors' = found
             /\ calls' = Append(calls, Call("closest_claims", <<s, DefaultN, "has_cons">>))
             /\ IF found = <<>>
                THEN /\ err' = "IndexError"
                     /\ pc' = "error"
                     /\ UNCHANGED <<neighbor, reply>>
                ELSE /\ neighbor' = <<found[1]>>
                     /\ reply' = <<kialo_render(kialo, found[1])>>
                     /\ pc' = "done"
                     /\ UNCHANGED err
    /\ UNCHANGED <<op, d, kialo, messages, choice>>

(* ----------------------------- RAG_Agent ------------------------------- *)
\* one role/content message per turn; the agent's own turns are 'assistant'
dialogue_to_openai(dlg, speaker) ==
    [i \in 1..Len(dlg) |->
        [role    |-> IF dlg[i].speaker = speaker THEN "assistant" ELSE "user",
         content |-> dlg[i].content]]

\* the error of line 150
NoContentError == "ValueError: No content string returned"

\* what the completion service may answer as choices[0]
Choices ==
    [content : RawContents, is_str : {TRUE}, finish_reason : FinishReasons]
        \cup [content : {<<>>}, is_str : {FALSE}, finish_reason : FinishReasons]

\* messages = dialogue_to_openai(d, ...); response = client.chat.completions.create(...)
\* choice = response.choices[0]
RAG_Agent_create ==
    /\ op = "RAG_Agent" /\ pc = "call"
    /\ LET msgs == dialogue_to_openai(d, BotName)
       IN /\ messages' = msgs
          /\ calls' = Append(calls, Call("chat.completions.create", <<msgs>>))
    /\ \E ch \in Choices : choice' = ch
    /\ pc' = "check_content"
    /\ UNCHANGED <<op, d, kialo, query, neighbors, neighbor, reply, err>>

\* variant: the isinstance check is missing
RAG_Agent_check_content_missing ==
    /\ op = "RAG_Agent" /\ pc = "check_content"
    /\ pc' = "clean_up"
    /\ UNCHANGED <<op, d, kialo, query, neighbors, neighbor, reply, err, calls, messages, choice>>

\* if not isinstance(content, str): raise ValueError("No content string returned ...")
RAG_Agent_check_content ==
    /\ op = "RAG_Agent" /\ pc = "check_content"
    /\ IF ~choice.is_str
       THEN /\ err' = NoContentError
            /\ pc' = "error"
       ELSE /\ pc' = "clean_up"
            /\ UNCHANGED err
    /\ UNCHANGED <<op, d, kialo, query, neighbors, neighbor, reply, calls, messages, choice>>

Ellipsis == <<" ", ".", ".", ".">>
SpeakerPrefix == BotName \o <<":", " ">>

\* if finish_reason == 'length': content += " ..."
append_ellipsis(content, finish_reason) ==
    IF finish_reason = "length" THEN content \o Ellipsis ELSE content

\* if content.startswith(speaker): content = content[len(speaker):]
strip_speaker(content, speaker) ==
    IF startswith(content, speaker)
    THEN SubSeq(content, Len(speaker) + 1, Len(content))
    ELSE content

\* lines 154-171: clean up the content and return it
RAG_Agent_clean_up ==
    /\ op = "RAG_Agent" /\ pc = "clean_up"
    /\ reply' = <<strip_speaker(append_ellipsis(choice.content, choice.finish_reason),
                                SpeakerPrefix)>>
    /\ pc' = "done"
    /\ UNCHANGED <<op, d, kialo, query, neighbors, neighbor, err, calls, messages, choice>>

Next ==
    \/ KialoAgent2_first_turn
    \/ KialoAgent2_query
    \/ KialoAgent2_assert
    \/ KialoAgent2_choose_neighbor
    \/ KialoAgent2_choose_con
    \/ kialo_responses
    \/ RAG_Agent_create
    \/ RAG_Agent_check_content
    \/ RAG_Agent_clean_up
    \/ KialoAgent_first_turn
    \/ KialoAgent_query
    \/ KialoAgent_assert
    \/ KialoAgent_choose_neighbor
    \/ KialoAgent_choose_con

Spec == Init /\ [][Next]_vars

(* ============================ properties =============================== *)
KialoOps == {"KialoAgent", "KialoAgent2"}
AgentOps == {"KialoAgent", "KialoAgent2", "RAG_Agent"}

\* s.endswith(suffix)
endswith(s, suffix) ==
    /\ Len(suffix) <= Len(s)
    /\ SubSeq(s, Len(s) - Len(suffix) + 1, Len(s)) = suffix

\* C1: when KialoAgent.response returns on a non-empty dialogue and
\* closest_claims(last turn's content, 3, has_cons) is non-empty, the reply is
\* one of the con arguments of a claim of that list.
C1_ReplyIsConOfNeighbor ==
    LET found == IF Len(d) > 0
                 THEN closest_claims(kialo, d[Len(d)].content, 3, "has_cons")
                 ELSE <<>>
    IN (op = "KialoAgent" /\ pc = "done" /\ found # <<>>)
          => /\ Len(reply) = 1
             /\ \E i \in 1..Len(found) : reply[1] \in Range(kialo.cons[found[i]])

\* the list is [C1], cons[C1] has two members, and one of them was returned
C1_Witness ==
    /\ op = "KialoAgent" /\ pc = "done" /\ Len(d) = 1
    /\ kialo = KialoSingle
    /\ neighbors = <<ca>>
    /\ reply = <<cb>>

\* C2: on an empty dialogue KialoAgent and KialoAgent2 reply with element 0 of
\* one random_chain() result, and closest_claims is never called.
C2_EmptyDialogueUsesRandomChain ==
    (op \in KialoOps /\ Len(d) = 0)
       => /\ \A i \in 1..Len(calls) : calls[i].fn # "closest_claims"
          /\ pc \in {"call", "done"}
          /\ pc = "done" =>
                /\ calls = <<Call("random_chain", <<>>)>>
                /\ \E chain \in random_chain(kialo) : reply = <<chain[1]>>

C2_Witness ==
    /\ op = "KialoAgent2" /\ Len(d) = 0 /\ pc = "done"
    /\ kialo = KialoSingle
    /\ reply = <<ca>>

\* C3: on a non-empty dialogue, when closest_claims returned the empty sequence,
\* KialoAgent and KialoAgent2 fail with an assertion error; no reply is returned
\* and no neighbor is chosen.
C3_EmptyNeighborsAssertion ==
    (op \in KialoOps /\ Len(d) > 0 /\ pc \notin {"call", "assert"} /\ neighbors = <<>>)
       => /\ pc = "error"
          /\ err = "AssertionError"
          /\ reply = <<>>
          /\ neighbor = <<>>

C3_Witness ==
    /\ op = "KialoAgent" /\ Len(d) > 0
    /\ kialo = KialoNoCons
    /\ closest_claims(kialo, query, 3, "has_cons") = <<>>
    /\ pc = "error" /\ err = "AssertionError"

\* C4: no step of KialoAgent.response, KialoAgent2.response or
\* RAG_Agent.response changes the dialogue it was passed.
C4_DialogueNotMutated ==
    [][(op \in AgentOps) => (d' = d)]_vars

\* a response on a non-empty dialogue that has run to its end
C4_Witness ==
    /\ op = "KialoAgent" /\ Len(d) = MaxTurns
    /\ pc = "done"

\* the blocks of the first k turns, turn i (from 0) repeated i+1 times
C5_Block(k) ==
    LET c == d[k].content
    IN [j \in 1..(k * Len(c)) |-> c[((j - 1) % Len(c)) + 1]]

\* the blocks of the first k turns, one after the other
RECURSIVE C5_Concatenated(_)
C5_Concatenated(k) ==
    IF k = 0 THEN <<>> ELSE C5_Concatenated(k - 1) \o C5_Block(k)

\* the blocks of the first k turns with ";" between consecutive blocks
RECURSIVE C5_Separated(_)
C5_Separated(k) ==
    IF k = 0 THEN <<>>
    ELSE IF k = 1 THEN C5_Block(1)
    ELSE C5_Separated(k - 1) \o <<";">> \o C5_Block(k)

\* C5 as stated: the query of KialoAgent2 is the plain concatenation of the
\* blocks, passed with n=3 and kind='has_cons'.
C5_QueryIsConcatenation ==
    (op = "KialoAgent2" /\ Len(d) > 0 /\ pc # "call")
       => /\ query = C5_Concatenated(Len(d))
          /\ calls[1] = Call("closest_claims", <<C5_Concatenated(Len(d)), 3, "has_cons">>)

\* C5 amended: the query of KialoAgent2 is the blocks joined with ";" between
\* consecutive turns, passed with n=3 and kind='has_cons'.
C5_QueryIsSeparatedBlocks ==
    (op = "KialoAgent2" /\ Len(d) > 0 /\ pc # "call")
       => /\ query = C5_Separated(Len(d))
          /\ calls[1] = Call("closest_claims", <<C5_Separated(Len(d)), 3, "has_cons">>)

C5_Witness ==
    /\ op = "KialoAgent2" /\ Len(d) >= 2 /\ pc # "call"
    /\ d[1].content = ca /\ d[2].content = cb
    /\ query = <<"a", ";", "b", "b">>

\* C6: RAG_Agent.response calls closest_claims before the completion call and
\* the messages sent contain the context block built by kialo_responses.
C6_ContextPrepended ==
    (op = "RAG_Agent" /\ pc # "call")
       => /\ \E i \in 1..Len(calls) : \E j \in (i + 1)..Len(calls) :
                /\ calls[i].fn = "closest_claims"
                /\ calls[j].fn = "chat.completions.create"
          /\ \E i \in 1..Len(messages) : RelatedHeader \in Range(messages[i].content)

\* C7: kialo_responses handles an empty closest_claims result and does not
\* fail by indexing element 0 of it.
C7_EmptyResultHandled ==
    (op = "kialo_responses" /\ pc # "call" /\ neighbors = <<>>)
       => /\ pc = "done"
          /\ err # "IndexError"

\* C8: the content RAG_Agent.response returns ends with " ..." when
\* finish_reason is 'length', and carries no appended marker otherwise.
C8_TruncationMarker ==
    (op = "RAG_Agent" /\ pc = "done")
       => IF choice.finish_reason = "length"
          THEN endswith(reply[1], Ellipsis)
          ELSE \/ reply[1] = choice.content
               \/ /\ startswith(choice.content, SpeakerPrefix)
                  /\ choice.content = SpeakerPrefix \o reply[1]

\* C9: when the first choice's content is not a string, RAG_Agent.response
\* raises the no-content error; no content is returned and no clean-up step runs.
C9_NoContentError ==
    (op = "RAG_Agent" /\ pc \notin {"call", "check_content"} /\ ~choice.is_str)
       => /\ pc = "error"
          /\ err = NoContentError
          /\ reply = <<>>

C9_Witness ==
    /\ op = "RAG_Agent" /\ ~choice.is_str /\ choice.finish_reason = "length"
    /\ pc = "error"

\* the replies a Kialo agent can give to the query s
C10_Replies(s) ==
    LET found == closest_claims(kialo, s, 3, "has_cons")
    IN UNION {Range(kialo.cons[found[i]]) : i \in 1..Len(found)}

\* C10: on a one-turn dialogue KialoAgent and KialoAgent2 build the same query,
\* the turn's content, issue the same closest_claims call and have the same
\* possible replies.
C10_OneTurnSameQuery ==
    (op \in KialoOps /\ Len(d) = 1 /\ pc # "call")
       => /\ query = d[1].content
          /\ calls = <<Call("closest_claims", <<d[1].content, 3, "has_cons">>)>>
          /\ neighbors = closest_claims(kialo, d[1].content, 3, "has_cons")
          /\ pc = "done" => (Len(reply) = 1 /\ reply[1] \in C10_Replies(d[1].content))

C10_Witness ==
    /\ op = "KialoAgent2" /\ Len(d) = 1 /\ pc = "done"
    /\ d[1].content = cb
    /\ kialo = KialoDense
====
